---- MODULE Spec2Model ----
(***************************************************************************)
(* BinanceExchangeClient (src/src/exchanges/BinanceExchangeClient.ts) as a *)
(* state machine.                                                          *)
(*                                                                         *)
(* The client is one JavaScript object used by several concurrent async    *)
(* calls.  JavaScript runs each call to its next await without             *)
(* interruption, so an action of this model is one such segment: it starts *)
(* where a call is resumed (a response, a fetch failure, a timer, a        *)
(* settled promise) and ends where the call suspends again or finishes.    *)
(* Each call is a stack of frames, one per async function that is waiting; *)
(* the globals are the fields of the client object.                        *)
(***************************************************************************)
EXTENDS Integers, Sequences, FiniteSets, TLC

(*************************** bounds of the model ***************************)
NumCallers == 2
\* operations one caller issues, one after the other
MaxCalls == 2
\* operations all callers issue together
MaxOps == 3
\* steps of the clock
MaxTicks == 3
\* steps of the clock in the order scenarios
MaxOrderTicks == 1
\* clock-drift answers the exchange gives to one call's requests
MaxDrift == 1
\* synchronizations nested in one call
MaxNest == 2
\* failures (rejections, aborts, transport errors) in a run with a failure budget
MaxFaults == 2
\* largest retry bound a caller passes
MaxRetries == 2
\* orders the exchange creates
MaxEntries == 3
MaxAmount == 3
MaxLeverage == 2
MaxSize == 16
MaxBase == 3
MaxQuantity == 2
MaxPositions == 1
MaxOrders == 2
\* stands for MAX_CACHE_SIZE (1000 in the source): the sweep only compares
\* the size of the map with it
CacheCapacity == 1
\* local clock (Date.now()) when the client is constructed
Epoch == 200000
\* true exchange clock minus local clock
Skew == 3000

(**************************** program constants ****************************)
SAFETY_MARGIN_MS == 2000
RESYNC_INTERVAL == 120000
defaultRecvWindow == 60000
CACHE_TTL == 86400000
MAX_CACHE_SIZE == CacheCapacity
BASE_TIMEOUT_MS == 15000
TIMEOUT_STEP_MS == 5000
CLOCK_DRIFT_CODE == -1021
DEFAULT_RETRIES == 3
SYNC_RETRY_DELAY_PUBLIC == 1000
SYNC_RETRY_DELAY_SIGNED == 500
\* a rejection the exchange gives for another reason (insufficient margin)
MARGIN_CODE == -2019

Ctor == 0
Callers == 1..NumCallers
Procs == 0..NumCallers
OrderIds == 1..MaxOrders

\* quantities are counted in thousandths
QtyScale == 10 * 10 * 10
\* contract minimums in thousandths: 0.001, 0.005, 0.01, 0.1, 1, 10
MinQtys == {1, 5, 10, 100, QtyScale, 10 * QtyScale}
\* prices in USDT
Prices == {1, 3, 400, 7000}
\* denominators of the sizes passed to placeOrder
Denominators == {1, 3, 400}

\* clock steps: a slow network leg (an odd number of ms), the resync interval exceeded
Delays == {5001, RESYNC_INTERVAL + 1}
\* clock steps of the order scenarios: an attempt timeout, the cache TTL exceeded
OrderDelays == {BASE_TIMEOUT_MS, CACHE_TTL + 1}

VARIABLES
  now,          \* Date.now()
  ticks,        \* clock steps taken
  skew,         \* exchange clock - local clock (never read by the client)
  timeOffset,   \* this.timeOffset
  lastSyncTime, \* this.lastSyncTime
  syncPromise,  \* this.syncPromise: "null" or "ctor" (the constructor's sync)
  orderCache,   \* this.orderCache: the Map's entries in insertion order
  stk,          \* per call: the frames of the async functions awaiting
  res,          \* per call: what the last finished operation returned or threw
  net,          \* fetch calls outstanding
  log,          \* per call: the attempts of its latest signed request
  syncLog,      \* t0, serverTime, t1 of the latest completed synchronization
  op,           \* per call: the operation it runs or ran last
  calls,        \* operations each caller has started
  drifts,       \* clock-drift answers each call has received
  faults,       \* failures counted against a failure budget
  placed,       \* order ids carried by the place responses the client received
  nextId,       \* next order id the exchange hands out
  args,         \* arguments of the call of a method that awaits nothing
  result        \* what that call returned

\* what a segment of a call writes (Commit)
clientVars == <<timeOffset, lastSyncTime, syncPromise, orderCache, stk, res, net, log,
                syncLog, op>>

vars == <<now, ticks, skew, timeOffset, lastSyncTime, syncPromise, orderCache,
          stk, res, net, log, syncLog, op, calls, drifts, faults, placed, nextId,
          args, result>>

\* no call of a method that awaits nothing
NoCall == [fn |-> "none"]

NoRes == [ok |-> TRUE, val |-> [kind |-> "none"]]
NoResp == [kind |-> "none"]
NoParams == [contract |-> "-", oid |-> 0]

Top(s) == s[Len(s)]
Pop(s) == SubSeq(s, 1, Len(s) - 1)
SetTop(s, f) == [s EXCEPT ![Len(s)] = f]
Min(a, b) == IF a < b THEN a ELSE b

IsReq(f) == f.fn \in {"handleRequest", "handleSignedRequest"}
IsSigned(f) == f.fn = "handleSignedRequest"

(***************************************************************************)
(* The part of the state one segment of a call reads and writes.           *)
(***************************************************************************)
St(p) ==
  [stk |-> stk[p], res |-> res[p], log |-> log[p], op |-> op[p],
   timeOffset |-> timeOffset, lastSyncTime |-> lastSyncTime,
   syncPromise |-> syncPromise, orderCache |-> orderCache,
   net |-> net, syncLog |-> syncLog]

Commit(p, S) ==
  /\ stk' = [stk EXCEPT ![p] = S.stk]
  /\ res' = [res EXCEPT ![p] = S.res]
  /\ log' = [log EXCEPT ![p] = S.log]
  /\ op' = [op EXCEPT ![p] = S.op]
  /\ timeOffset' = S.timeOffset
  /\ lastSyncTime' = S.lastSyncTime
  /\ syncPromise' = S.syncPromise
  /\ orderCache' = S.orderCache
  /\ net' = S.net
  /\ syncLog' = S.syncLog

(***************************** request signing *****************************)
getServerTime(offset, t) == t + offset

\* HMAC-SHA256 of the query string: a value that determines the data signed
generateSignature(data) == [hmac |-> data]

\* (mutant) the timestamp is built once, before the loop, and reused on a retry
StaleTimestamp(f, offset, t) ==
  IF f.attempt = 1 THEN getServerTime(offset, t) ELSE f.ts

\* the timestamp an attempt of handleSignedRequest puts into its request
AttemptTimestamp(f, offset, t) == getServerTime(offset, t)

timeoutMs(attempt) == BASE_TIMEOUT_MS + (attempt - 1) * TIMEOUT_STEP_MS

\* the delay before the next attempt after a rejection or a failed fetch
backoffMs(attempt) == Min(1000 * attempt, 3000)
timeoutBackoffMs(attempt) == Min(2000 * attempt, 6000)

isTimeout(err) == err.name = "AbortError"

(***************************************************************************)
(* A request frame keeps, beside the loop's locals, the record of its      *)
(* attempts (hist); log mirrors the record of the call's signed request.   *)
(***************************************************************************)
PutTop(S, f) ==
  [S EXCEPT !.stk = SetTop(S.stk, f),
            !.log = IF IsSigned(f) THEN f.hist ELSE @]

SetLast(h, field, v) == [h EXCEPT ![Len(h)] = [@ EXCEPT ![field] = v]]

\* note on the latest attempt of the request on top of the stack
Mark(S, field, v) ==
  LET f == Top(S.stk) IN PutTop(S, [f EXCEPT !.hist = SetLast(@, field, v)])

\* return from (or throw out of) the request on top of the stack
Leave(S) == [S EXCEPT !.stk = Pop(S.stk)]

(***************************************************************************)
(* One loop iteration up to its await: build the request (for a signed     *)
(* request the timestamp and the signature), start the fetch.              *)
(***************************************************************************)
SendAttempt(p, S, t) ==
  LET f == Top(S.stk)
      signed == IsSigned(f)
      timestamp == IF signed THEN AttemptTimestamp(f, S.timeOffset, t) ELSE 0
      data == [params |-> f.params, timestamp |-> timestamp,
               recvWindow |-> defaultRecvWindow]
      msg == [p |-> p, d |-> Len(S.stk), ep |-> f.ep, params |-> f.params,
              attempt |-> f.attempt, signed |-> signed,
              ts |-> timestamp,
              sig |-> IF signed THEN generateSignature(data) ELSE [hmac |-> NoParams],
              sentAt |-> t, offAt |-> S.timeOffset,
              st |-> "sent", resp |-> NoResp]
      entry == [attempt |-> f.attempt, retries |-> f.retries, ts |-> timestamp,
                at |-> t, off |-> S.timeOffset, out |-> "pending",
                sync |-> "none", syncOff |-> 0]
      S1 == PutTop(S, [f EXCEPT !.pc = "fetch", !.ts = timestamp,
                                !.hist = Append(@, entry)])
  IN [S1 EXCEPT !.net = @ \cup {msg}]

ReqFrame(fn, ep, params, retries) ==
  [fn |-> fn, ep |-> ep, params |-> params, retries |-> retries,
   attempt |-> 1, pc |-> "start", wake |-> 0, ts |-> 0, hist |-> <<>>]

\* publicRequest -> handleRequest, up to the first fetch (retries >= 1)
call_publicRequest(p, S, t, ep, params, retries) ==
  SendAttempt(p, [S EXCEPT !.stk = Append(@, ReqFrame("handleRequest", ep, params, retries))], t)

\* handleSignedRequest, up to the first fetch (retries >= 1)
call_handleSignedRequest(p, S, t, ep, params, retries) ==
  SendAttempt(p, [S EXCEPT !.stk = Append(@, ReqFrame("handleSignedRequest", ep, params, retries))], t)

\* syncServerTime, up to the fetch of /fapi/v1/time
call_syncServerTime(p, S, t, origin) ==
  call_publicRequest(p,
    [S EXCEPT !.stk = Append(@, [fn |-> "syncServerTime", t0 |-> t, origin |-> origin])],
    t, "time", NoParams, DEFAULT_RETRIES)

\* privateRequest: ensureTimeSynced, then handleSignedRequest
call_privateRequest(p, S, t, ep, params, retries) ==
  LET fr(pc) == [fn |-> "privateRequest", pc |-> pc, ep |-> ep,
                 params |-> params, retries |-> retries]
  IN IF S.syncPromise # "null"
       THEN [S EXCEPT !.stk = Append(@, fr("awaitSyncPromise"))]
     ELSE IF t - S.lastSyncTime > RESYNC_INTERVAL
       THEN call_syncServerTime(p, [S EXCEPT !.stk = Append(@, fr("ensureSync"))], t, "ensure")
     ELSE call_handleSignedRequest(p, [S EXCEPT !.stk = Append(@, fr("request"))],
                                   t, ep, params, retries)

(******************************* order cache *******************************)
CacheIds(cache) == {cache[i].id : i \in 1..Len(cache)}

\* Map.get: the entry, or the record with found = FALSE
cacheGet(cache, id) ==
  IF id \in CacheIds(cache)
    THEN LET i == CHOOSE j \in 1..Len(cache) : cache[j].id = id
         IN [found |-> TRUE, contract |-> cache[i].contract,
             orderInfo |-> cache[i].orderInfo, timestamp |-> cache[i].timestamp]
    ELSE [found |-> FALSE, contract |-> "-", orderInfo |-> [kind |-> "none"], timestamp |-> 0]

\* Map.set: an existing key keeps its place in the iteration order
cacheSet(cache, id, contract, orderInfo, t) ==
  LET e == [id |-> id, contract |-> contract, orderInfo |-> orderInfo, timestamp |-> t]
  IN IF id \in CacheIds(cache)
       THEN [i \in 1..Len(cache) |-> IF cache[i].id = id THEN e ELSE cache[i]]
       ELSE Append(cache, e)

RECURSIVE InsertSorted(_, _)
InsertSorted(e, sorted) ==
  IF sorted = <<>> THEN <<e>>
  ELSE IF Head(sorted).timestamp <= e.timestamp
    THEN <<Head(sorted)>> \o InsertSorted(e, Tail(sorted))
    ELSE <<e>> \o sorted

\* entries.sort((a, b) => a[1].timestamp - b[1].timestamp): stable
RECURSIVE SortByTimestamp(_)
SortByTimestamp(entries) ==
  IF entries = <<>> THEN <<>>
  ELSE InsertSorted(entries[Len(entries)], SortByTimestamp(Pop(entries)))

isExpired(e, t) == t - e.timestamp > CACHE_TTL

\* (mutant) over capacity, the newest entries are evicted instead of the oldest
cleanupCache_evictNewest(cache, t) ==
  LET live == SelectSeq(cache, LAMBDA e : ~isExpired(e, t))
  IN IF Len(live) > MAX_CACHE_SIZE
       THEN LET sorted == SortByTimestamp(live)
                toDelete == {sorted[i].id : i \in (MAX_CACHE_SIZE + 1)..Len(live)}
            IN SelectSeq(live, LAMBDA e : e.id \notin toDelete)
       ELSE live

cleanupCache(cache, t) ==
  LET live == SelectSeq(cache, LAMBDA e : ~isExpired(e, t))
  IN IF Len(live) > MAX_CACHE_SIZE
       THEN LET sorted == SortByTimestamp(live)
                toDelete == {sorted[i].id : i \in 1..(Len(live) - MAX_CACHE_SIZE)}
            IN SelectSeq(live, LAMBDA e : e.id \notin toDelete)
       ELSE live

(***************************** result mapping ******************************)
\* the order statuses of the exchange
OrderStatuses == {"NEW", "PARTIALLY_FILLED", "FILLED", "CANCELED", "REJECTED", "EXPIRED"}

\* response.status.toLowerCase()
toLowerCase(s) ==
  CASE s = "NEW" -> "new"
    [] s = "PARTIALLY_FILLED" -> "partially_filled"
    [] s = "FILLED" -> "filled"
    [] s = "CANCELED" -> "canceled"
    [] s = "REJECTED" -> "rejected"
    [] s = "EXPIRED" -> "expired"

\* placeOrder's status (lines 554-556)
placeStatus(s) == IF s = "FILLED" THEN "finished"
                  ELSE IF s = "NEW" THEN "open"
                  ELSE toLowerCase(s)

\* getOrder's status (lines 599-602)
queryStatus(s) == IF s = "FILLED" THEN "finished"
                  ELSE IF s = "NEW" THEN "open"
                  ELSE IF s = "CANCELED" THEN "cancelled"
                  ELSE toLowerCase(s)

Order(id, contract, status) ==
  [kind |-> "order", id |-> id, contract |-> contract, status |-> status]

defaultOrder(oid) == Order(oid, "UNKNOWN", "finished")

(***************************************************************************)
(* Deliver: resume the function on top of the stack with what the function *)
(* it awaited returned (ret.ok) or threw, and run it to its next await.    *)
(***************************************************************************)
Sleep(S, t, delay) ==
  LET f == Top(S.stk) IN PutTop(S, [f EXCEPT !.pc = "sleep", !.wake = t + delay])

\* (mutant) the whole round trip is added, not half of it
syncServerTime_fullRtt(S, f, t, response) ==
  [S EXCEPT !.timeOffset = (response.serverTime + (t - f.t0)) - t - SAFETY_MARGIN_MS,
            !.lastSyncTime = t,
            !.syncLog = [t0 |-> f.t0, serverTime |-> response.serverTime, t1 |-> t, n |-> 1]]

\* syncServerTime after its time query answered (lines 142-153)
syncServerTime_done(S, f, t, response) ==
  LET t0 == f.t0
      t1 == t
      serverTime == response.serverTime
      rtt == t1 - t0
      estimatedServerTime == serverTime + (rtt \div 2)
      localTime == t1
      rawOffset == estimatedServerTime - localTime
  IN [S EXCEPT !.timeOffset = rawOffset - SAFETY_MARGIN_MS,
               !.lastSyncTime = t,
               !.syncLog = [t0 |-> t0, serverTime |-> serverTime, t1 |-> t1, n |-> 1]]

\* (mutant) a failed synchronization still stamps lastSyncTime
syncServerTime_catchStamps(S, f, t, error) == [S EXCEPT !.lastSyncTime = t]

\* syncServerTime's catch (lines 156-159): log and rethrow
syncServerTime_catch(S, f, t, error) == S

\* the retry loops after the syncServerTime() of the clock-drift path
afterDriftSync(S, t, ret) ==
  LET f == Top(S.stk)
      signed == IsSigned(f)
      S1 == Mark(Mark(S, "sync", IF ret.ok THEN "ok" ELSE "failed"), "syncOff", S.timeOffset)
  IN IF ret.ok
       THEN Sleep(S1, t, IF signed THEN SYNC_RETRY_DELAY_SIGNED ELSE SYNC_RETRY_DELAY_PUBLIC)
       ELSE \* the sync's error lands in the catch around the fetch; attempt < retries here
            Sleep(S1, t, IF ~signed /\ isTimeout(ret) THEN timeoutBackoffMs(f.attempt)
                         ELSE backoffMs(f.attempt))

\* placeOrder after the order request returned (lines 550-573)
placeOrder_store(cache, f, t, response) ==
  LET orderResponse == Order(response.orderId, f.contract, placeStatus(response.status))
  IN [ret |-> [ok |-> TRUE, val |-> orderResponse],
      cache |-> cleanupCache(cacheSet(cache, orderResponse.id, f.contract,
                                      orderResponse, t), t)]

\* (mutant) the failure is swallowed: a default order is returned
placeOrder_swallow(cache, f, t, error) ==
  [ret |-> [ok |-> TRUE, val |-> Order(0, f.contract, "finished")], cache |-> cache]

\* placeOrder's catch (lines 574-577): log and rethrow
placeOrder_catch(cache, f, t, error) ==
  [ret |-> error, cache |-> cache]

\* getOrder after the re-query returned (lines 594-615)
getOrder_store(cache, f, t, response) ==
  LET orderResponse == Order(response.orderId, f.cached.contract, queryStatus(response.status))
  IN [ret |-> [ok |-> TRUE, val |-> orderResponse],
      cache |-> cacheSet(cache, f.oid, f.cached.contract, orderResponse, t)]

\* (mutant) the failure of the re-query is rethrown
getOrder_rethrow(cache, f, t, error) ==
  [ret |-> error, cache |-> cache]

\* getOrder's catch around the re-query (lines 616-620): the snapshot read
\* from the cache before the query is returned
getOrder_catch(cache, f, t, error) ==
  [ret |-> [ok |-> TRUE, val |-> f.cached.orderInfo], cache |-> cache]

\* getOrder for an id that is not cached, after getOpenOrders() (lines 623-646)
getOrder_uncached(f, t, ret) ==
  IF ret.ok
    THEN [ok |-> TRUE,
          val |-> IF f.oid \in ret.val.open
                    THEN Order(f.oid, "BTCUSDT", "open")
                    ELSE defaultOrder(f.oid)]
    ELSE ret

\* cancelOrder's `throw new Error(...)` for an order that is not among the
\* open orders (lines 656-658)
notFound(oid) ==
  [ok |-> FALSE, name |-> "Error", msg |-> <<"Order not found. Cannot cancel without symbol.", oid>>]

\* cancelOrder after getOpenOrders() (lines 653-659): the contract of the
\* order to cancel, looked up among the open orders only
cancelOrder_find(cache, f, ret) ==
  IF ~ret.ok THEN [found |-> FALSE, error |-> ret, contract |-> "-"]
  ELSE IF f.oid \in ret.val.open
    THEN [found |-> TRUE, error |-> ret, contract |-> "BTCUSDT"]
    ELSE [found |-> FALSE, error |-> notFound(f.oid), contract |-> "-"]

RECURSIVE Deliver(_, _, _, _)
Deliver(p, S, t, ret) ==
  IF S.stk = <<>> THEN [S EXCEPT !.res = ret]
  ELSE
  LET f == Top(S.stk)
      popped == Leave(S)
  IN CASE f.fn = "syncServerTime" ->
            IF ret.ok THEN Deliver(p, syncServerTime_done(popped, f, t, ret.val), t,
                                   [ok |-> TRUE, val |-> [kind |-> "void"]])
            ELSE Deliver(p, syncServerTime_catch(popped, f, t, ret), t, ret)
       [] IsReq(f) -> afterDriftSync(S, t, ret)
       [] f.fn = "privateRequest" ->
            IF f.pc = "ensureSync" /\ ret.ok
              THEN call_handleSignedRequest(p,
                     [S EXCEPT !.stk = SetTop(S.stk, [f EXCEPT !.pc = "request"])],
                     t, f.ep, f.params, f.retries)
              ELSE Deliver(p, popped, t, ret)
       [] f.fn = "getFuturesAccount" ->
            Deliver(p, popped, t, IF ret.ok THEN [ok |-> TRUE, val |-> [kind |-> "account"]]
                                  ELSE ret)
       [] f.fn = "placeOrder" ->
            IF f.pc = "contractInfo"
              THEN \* a failure of getContractInfo is caught: default precision
                   call_privateRequest(p,
                     [S EXCEPT !.stk = SetTop(S.stk, [f EXCEPT !.pc = "order"])],
                     t, "order", [contract |-> f.contract, oid |-> 0], f.retries)
              ELSE LET r == IF ret.ok THEN placeOrder_store(S.orderCache, f, t, ret.val)
                            ELSE placeOrder_catch(S.orderCache, f, t, ret)
                   IN Deliver(p, [popped EXCEPT !.orderCache = r.cache], t, r.ret)
       [] f.fn = "getOrder" ->
            IF f.pc = "query"
              THEN IF ret.ok
                     THEN LET r == getOrder_store(S.orderCache, f, t, ret.val)
                          IN Deliver(p, [popped EXCEPT !.orderCache = r.cache], t, r.ret)
                     ELSE LET r == getOrder_catch(S.orderCache, f, t, ret)
                          IN Deliver(p, [popped EXCEPT !.orderCache = r.cache], t, r.ret)
              ELSE Deliver(p, popped, t, getOrder_uncached(f, t, ret))
       [] f.fn = "cancelOrder" ->
            IF f.pc = "openOrders"
              THEN LET order == cancelOrder_find(S.orderCache, f, ret)
                   IN IF order.found
                        THEN call_privateRequest(p,
                               [S EXCEPT !.stk = SetTop(S.stk, [f EXCEPT !.pc = "cancel"])],
                               t, "cancel", [contract |-> order.contract, oid |-> f.oid],
                               DEFAULT_RETRIES)
                        ELSE Deliver(p, popped, t, order.error)
              ELSE Deliver(p, popped, t, IF ret.ok THEN [ok |-> TRUE, val |-> [kind |-> "void"]]
                                         ELSE ret)

(***************************************************************************)
(* The retry loops of handleRequest (204-260) and handleSignedRequest      *)
(* (291-379) from the point where the fetch settles.                       *)
(***************************************************************************)
\* new Error(prefix + (error.msg || ...)) (lines 228 and 349): an Error
\* whose message is the source's fixed prefix ("API request failed: " in
\* Chinese) followed by the upstream message; the object has a name and a
\* message and no other property
apiError(error) ==
  [ok |-> FALSE, name |-> "Error", msg |-> <<"API request failed: ", error.msg>>]

onResponse(p, S, t, resp) ==
  LET out == IF resp.kind = "ok" THEN "ok"
             ELSE IF resp.code = CLOCK_DRIFT_CODE THEN "drift" ELSE "rejected"
      S1 == Mark(S, "out", out)
      f == Top(S1.stk)
  IN IF resp.kind = "ok"
       THEN Deliver(p, Leave(S1), t, [ok |-> TRUE, val |-> resp.body])
     ELSE IF resp.code = CLOCK_DRIFT_CODE /\ f.attempt < f.retries
       THEN call_syncServerTime(p, PutTop(S1, [f EXCEPT !.pc = "sync"]), t, "drift")
     ELSE IF f.attempt = f.retries
       THEN Deliver(p, Leave(S1), t, apiError(resp))
     ELSE Sleep(S1, t, backoffMs(f.attempt))

onFetchError(p, S, t, err) ==
  LET S1 == Mark(S, "out", err.name)
      f == Top(S1.stk)
  IN IF f.attempt = f.retries
       THEN Deliver(p, Leave(S1), t, err)
     ELSE Sleep(S1, t, IF ~IsSigned(f) /\ isTimeout(err) THEN timeoutBackoffMs(f.attempt)
                       ELSE backoffMs(f.attempt))

\* (mutant) the retry after a clock-drift answer does not count as an attempt
onWake_driftFree(p, S, t) ==
  LET f == Top(S.stk)
      last == f.hist[Len(f.hist)]
  IN SendAttempt(p, PutTop(S, [f EXCEPT !.attempt = IF last.out = "drift" THEN @ ELSE @ + 1]), t)

\* the delay is over: the next iteration of the loop
onWake(p, S, t) ==
  LET f == Top(S.stk)
  IN SendAttempt(p, PutTop(S, [f EXCEPT !.attempt = @ + 1]), t)


(***************************************************************************)
(* The exchange and the network.                                           *)
(***************************************************************************)
Body(serverTime, orderId, status, open) ==
  [serverTime |-> serverTime, orderId |-> orderId, status |-> status, open |-> open]

NoBody == Body(0, 0, "-", {})

OkResp(body) == [kind |-> "ok", code |-> 0, msg |-> "", body |-> body]
ErrResp(code, msg) == [kind |-> "error", code |-> code, msg |-> msg, body |-> NoBody]

Created == 1..(nextId - 1)

\* what the exchange may answer to request m with a success status
OkBodies(m) ==
  CASE m.ep = "time" -> {Body(now + skew, 0, "-", {})}
    [] m.ep = "order" -> {Body(0, nextId, "NEW", {})}
    [] m.ep = "queryOrder" -> {Body(0, m.params.oid, "FILLED", {})}
    [] m.ep = "openOrders" -> {NoBody} \cup {Body(0, 0, "-", {i}) : i \in Created}
    [] OTHER -> {NoBody}

Reply(m, resp) ==
  net' = (net \ {m}) \cup {[m EXCEPT !.st = "replied", !.resp = resp]}

\* a failure, counted when the run has a failure budget
Fault(budgeted) ==
  /\ budgeted => faults < MaxFaults
  /\ faults' = IF budgeted THEN faults + 1 ELSE faults

\* the exchange answers 2xx
ServeOk(m) ==
  /\ m.st = "sent"
  /\ m.ep = "order" => nextId <= MaxOrders
  /\ \E b \in OkBodies(m) : Reply(m, OkResp(b))
  /\ nextId' = IF m.ep = "order" THEN nextId + 1 ELSE nextId
  /\ UNCHANGED <<now, ticks, skew, timeOffset, lastSyncTime, syncPromise, orderCache,
                 stk, res, log, syncLog, op, calls, drifts, faults, placed, args, result>>

\* the exchange rejects with an error other than clock drift
ServeReject(m, budgeted) ==
  /\ m.st = "sent"
  /\ Fault(budgeted)
  /\ Reply(m, ErrResp(MARGIN_CODE, "Margin is insufficient."))
  /\ UNCHANGED <<now, ticks, skew, timeOffset, lastSyncTime, syncPromise, orderCache,
                 stk, res, log, syncLog, op, calls, drifts, placed, nextId, args, result>>

\* the exchange rejects with the clock-drift code
ServeDrift(m, budgeted) ==
  /\ m.st = "sent"
  /\ drifts[m.p] < MaxDrift
  /\ Fault(budgeted)
  /\ Reply(m, ErrResp(CLOCK_DRIFT_CODE, "Timestamp for this request is outside of the recvWindow."))
  /\ drifts' = [drifts EXCEPT ![m.p] = @ + 1]
  /\ UNCHANGED <<now, ticks, skew, timeOffset, lastSyncTime, syncPromise, orderCache,
                 stk, res, log, syncLog, op, calls, placed, nextId, args, result>>

\* the fetch of call p that message m belongs to
Awaited(p, m) ==
  /\ m.p = p
  /\ stk[p] # <<>>
  /\ IsReq(Top(stk[p]))
  /\ Top(stk[p]).pc = "fetch"
  /\ m.d = Len(stk[p])
  /\ m.attempt = Top(stk[p]).attempt

\* the fetch is settled: it is no longer outstanding
Unfetch(S, m) == [S EXCEPT !.net = @ \ {m}]

\* the response arrives before the attempt's timeout
Receive(p, m) ==
  /\ Awaited(p, m)
  /\ m.st = "replied"
  /\ now - m.sentAt <= timeoutMs(m.attempt)
  /\ Commit(p, onResponse(p, Unfetch(St(p), m), now, m.resp))
  /\ placed' = IF m.ep = "order" /\ m.resp.kind = "ok"
                 THEN placed \cup {m.resp.body.orderId} ELSE placed
  /\ UNCHANGED <<now, ticks, skew, calls, drifts, faults, nextId, args, result>>

\* the attempt's timer fires: controller.abort() rejects the fetch
Abort(p, m, budgeted) ==
  /\ Awaited(p, m)
  /\ now - m.sentAt >= timeoutMs(m.attempt)
  /\ Fault(budgeted)
  /\ Commit(p, onFetchError(p, Unfetch(St(p), m), now,
                            [ok |-> FALSE, name |-> "AbortError", msg |-> "This operation was aborted"]))
  /\ UNCHANGED <<now, ticks, skew, calls, drifts, placed, nextId, args, result>>

\* the fetch fails at transport level
NetError(p, m, budgeted) ==
  /\ Awaited(p, m)
  /\ m.st = "sent"
  /\ Fault(budgeted)
  /\ Commit(p, onFetchError(p, Unfetch(St(p), m), now,
                            [ok |-> FALSE, name |-> "TypeError", msg |-> "fetch failed"]))
  /\ UNCHANGED <<now, ticks, skew, calls, drifts, placed, nextId, args, result>>

\* the delay before the next attempt is over
Wake(p) ==
  /\ stk[p] # <<>>
  /\ IsReq(Top(stk[p]))
  /\ Top(stk[p]).pc = "sleep"
  /\ now >= Top(stk[p]).wake
  /\ Commit(p, onWake(p, St(p), now))
  /\ UNCHANGED <<now, ticks, skew, calls, drifts, faults, placed, nextId, args, result>>

\* the constructor's promise
CtorPromise == IF stk[Ctor] # <<>> THEN "pending"
               ELSE IF res[Ctor].ok THEN "fulfilled" ELSE "rejected"

\* ensureTimeSynced after `await this.syncPromise` (lines 168-170)
ensureTimeSynced_resume(p, S, t) ==
  LET f == Top(S.stk)
  IN IF CtorPromise = "fulfilled"
       THEN call_handleSignedRequest(p,
              [S EXCEPT !.syncPromise = "null",
                        !.stk = SetTop(S.stk, [f EXCEPT !.pc = "request"])],
              t, f.ep, f.params, f.retries)
       ELSE Deliver(p, Leave(S), t, res[Ctor])

AwaitSyncPromise(p) ==
  /\ stk[p] # <<>>
  /\ Top(stk[p]).fn = "privateRequest"
  /\ Top(stk[p]).pc = "awaitSyncPromise"
  /\ CtorPromise # "pending"
  /\ Commit(p, ensureTimeSynced_resume(p, St(p), now))
  /\ UNCHANGED <<now, ticks, skew, calls, drifts, faults, placed, nextId, args, result>>

(***************************** the operations ******************************)
\* operations started by callers 1..n
RECURSIVE Total(_, _)
Total(f, n) == IF n = 0 THEN 0 ELSE f[n] + Total(f, n - 1)

CanStart(p) ==
  /\ p \in Callers
  /\ stk[p] = <<>>
  /\ calls[p] < MaxCalls
  /\ Total(calls, NumCallers) < MaxOps
  /\ p > 1 => calls[p - 1] > 0

Started(p, name, S) ==
  /\ Commit(p, [S EXCEPT !.op = name])
  /\ calls' = [calls EXCEPT ![p] = @ + 1]
  /\ UNCHANGED <<now, ticks, skew, drifts, faults, placed, nextId, args, result>>

\* the state a call starts from
Fresh(p) == [St(p) EXCEPT !.res = NoRes, !.log = <<>>]

\* getFuturesAccount(retries): an operation that is one private request
getFuturesAccount(p, retries) ==
  /\ CanStart(p)
  /\ Started(p, "getFuturesAccount",
       call_privateRequest(p, [Fresh(p) EXCEPT !.stk = <<[fn |-> "getFuturesAccount"]>>],
                           now, "account", NoParams, retries))

placeOrder(p, contract, retries) ==
  /\ CanStart(p)
  /\ Started(p, "placeOrder",
       call_publicRequest(p,
         [Fresh(p) EXCEPT !.stk = <<[fn |-> "placeOrder", pc |-> "contractInfo",
                                     contract |-> contract, retries |-> retries]>>],
         now, "exchangeInfo", NoParams, 2))

getOrder(p, orderId) ==
  /\ CanStart(p)
  /\ LET cached == cacheGet(orderCache, orderId)
         fr(pc) == [fn |-> "getOrder", pc |-> pc, oid |-> orderId, cached |-> cached,
                    lookedAt |-> now]
     IN Started(p, "getOrder",
          IF cached.found
            THEN call_privateRequest(p, [Fresh(p) EXCEPT !.stk = <<fr("query")>>], now,
                   "queryOrder", [contract |-> cached.contract, oid |-> orderId], 2)
            ELSE call_privateRequest(p, [Fresh(p) EXCEPT !.stk = <<fr("openOrders")>>], now,
                   "openOrders", NoParams, 2))

\* cancelOrder(orderId): getOpenOrders(), then DELETE /fapi/v1/order
cancelOrder(p, orderId) ==
  /\ CanStart(p)
  /\ Started(p, "cancelOrder",
       call_privateRequest(p,
         [Fresh(p) EXCEPT !.stk = <<[fn |-> "cancelOrder", pc |-> "openOrders",
                                     oid |-> orderId]>>],
         now, "openOrders", NoParams, 2))

Tick(d, cap) ==
  /\ ticks < cap
  /\ now' = now + d
  /\ ticks' = ticks + 1
  /\ UNCHANGED <<skew, timeOffset, lastSyncTime, syncPromise, orderCache,
                 stk, res, net, log, syncLog, op, calls, drifts, faults, placed, nextId, args, result>>

(***************************************************************************)
(* The state after `new BinanceExchangeClient(config)`: the constructor    *)
(* has started syncServerTime() and kept its promise in syncPromise.       *)
(***************************************************************************)
InitClient ==
  [stk |-> <<>>, res |-> NoRes, log |-> <<>>, op |-> "constructor",
   timeOffset |-> 0, lastSyncTime |-> 0, syncPromise |-> "ctor",
   orderCache |-> <<>>, net |-> {},
   syncLog |-> [t0 |-> 0, serverTime |-> 0, t1 |-> 0, n |-> 0]]

Init ==
  /\ now = Epoch
  /\ ticks = 0
  /\ skew = Skew
  /\ calls = [p \in Procs |-> 0]
  /\ drifts = [p \in Procs |-> 0]
  /\ faults = 0
  /\ placed = {}
  /\ nextId = 1
  /\ args = NoCall
  /\ result = NoCall
  /\ LET S == call_syncServerTime(Ctor, InitClient, Epoch, "ctor")
     IN /\ stk = [p \in Procs |-> IF p = Ctor THEN S.stk ELSE <<>>]
        /\ res = [p \in Procs |-> NoRes]
        /\ log = [p \in Procs |-> <<>>]
        /\ op = [p \in Procs |-> IF p = Ctor THEN "constructor" ELSE "none"]
        /\ timeOffset = S.timeOffset
        /\ lastSyncTime = S.lastSyncTime
        /\ syncPromise = S.syncPromise
        /\ orderCache = S.orderCache
        /\ net = S.net
        /\ syncLog = S.syncLog

Next ==
  \/ \E d \in Delays : Tick(d, MaxTicks)
  \/ \E m \in net : ServeOk(m)
  \/ \E m \in net : ServeReject(m, FALSE)
  \/ \E m \in net : ServeDrift(m, FALSE)
  \/ \E p \in Procs, m \in net : Receive(p, m)
  \/ \E p \in Procs, m \in net : Abort(p, m, FALSE)
  \/ \E p \in Procs, m \in net : NetError(p, m, FALSE)
  \/ \E p \in Procs : Wake(p)
  \/ \E p \in Procs : AwaitSyncPromise(p)
  \/ \E r \in 1..MaxRetries : getFuturesAccount(1, r)

\* one caller issuing private requests, any failures
Spec == Init /\ [][Next]_vars

NextOrders ==
  \/ \E d \in OrderDelays : Tick(d, MaxOrderTicks)
  \/ \E m \in net : ServeOk(m)
  \/ \E m \in net : ServeReject(m, TRUE)
  \/ \E m \in net : ServeDrift(m, TRUE)
  \/ \E p \in Procs, m \in net : Receive(p, m)
  \/ \E p \in Procs, m \in net : Abort(p, m, TRUE)
  \/ \E p \in Procs, m \in net : NetError(p, m, TRUE)
  \/ \E p \in Procs : Wake(p)
  \/ \E p \in Procs : AwaitSyncPromise(p)
  \/ \E p \in Callers, r \in 1..MaxRetries : placeOrder(p, "BTC", r)
  \/ \E p \in Callers, o \in OrderIds : getOrder(p, o)

\* concurrent callers placing and querying orders, a bounded number of failures
SpecOrders == Init /\ [][NextOrders]_vars


NextPlace ==
  \/ \E d \in OrderDelays : Tick(d, MaxOrderTicks)
  \/ \E m \in net : ServeOk(m)
  \/ \E m \in net : ServeReject(m, TRUE)
  \/ \E m \in net : ServeDrift(m, TRUE)
  \/ \E p \in Procs, m \in net : Receive(p, m)
  \/ \E p \in Procs, m \in net : Abort(p, m, TRUE)
  \/ \E p \in Procs, m \in net : NetError(p, m, TRUE)
  \/ \E p \in Procs : Wake(p)
  \/ \E p \in Procs : AwaitSyncPromise(p)
  \/ \E r \in 1..MaxRetries : placeOrder(1, "BTC", r)
  \/ \E o \in OrderIds : getOrder(1, o)

\* one caller placing and querying orders, a bounded number of failures
SpecPlace == Init /\ [][NextPlace]_vars

NextCancel ==
  \/ \E d \in OrderDelays : Tick(d, MaxOrderTicks)
  \/ \E m \in net : ServeOk(m)
  \/ \E m \in net : ServeReject(m, TRUE)
  \/ \E m \in net : ServeDrift(m, TRUE)
  \/ \E p \in Procs, m \in net : Receive(p, m)
  \/ \E p \in Procs, m \in net : Abort(p, m, TRUE)
  \/ \E p \in Procs, m \in net : NetError(p, m, TRUE)
  \/ \E p \in Procs : Wake(p)
  \/ \E p \in Procs : AwaitSyncPromise(p)
  \/ \E r \in 1..MaxRetries : placeOrder(1, "BTC", r)
  \/ \E o \in OrderIds : cancelOrder(1, o)

\* one caller placing and cancelling orders, a bounded number of failures
SpecCancel == Init /\ [][NextCancel]_vars

NextRetry ==
  \/ \E d \in OrderDelays : Tick(d, MaxTicks)
  \/ \E m \in net : ServeOk(m)
  \/ \E m \in net : ServeReject(m, TRUE)
  \/ \E m \in net : ServeDrift(m, TRUE)
  \/ \E p \in Procs, m \in net : Receive(p, m)
  \/ \E p \in Procs, m \in net : Abort(p, m, TRUE)
  \/ \E p \in Procs, m \in net : NetError(p, m, TRUE)
  \/ \E p \in Procs : Wake(p)
  \/ \E p \in Procs : AwaitSyncPromise(p)
  \/ \E r \in 1..MaxRetries : placeOrder(1, "BTC", r)

\* one caller placing orders over a time long enough for attempts to time
\* out and be retried, a bounded number of failures
SpecRetry == Init /\ [][NextRetry]_vars

(***************************************************************************)
(* Nested synchronizations.  handleRequest's clock-drift branch (lines     *)
(* 222-226) applies to every request it carries, the /fapi/v1/time request *)
(* of syncServerTime included: a clock-drift answer to that request starts *)
(* another syncServerTime beneath it.                                      *)
(***************************************************************************)
\* the synchronizations in progress in a call
SyncDepth(s) == Cardinality({i \in 1..Len(s) : s[i].fn = "syncServerTime"})

\* the exchange answers a server-time request with the clock-drift code
ServeTimeDrift(m, budgeted) ==
  /\ m.st = "sent"
  /\ m.ep = "time"
  /\ SyncDepth(stk[m.p]) < MaxNest
  /\ Fault(budgeted)
  /\ Reply(m, ErrResp(CLOCK_DRIFT_CODE, "Timestamp for this request is outside of the recvWindow."))
  /\ UNCHANGED <<now, ticks, skew, timeOffset, lastSyncTime, syncPromise, orderCache,
                 stk, res, log, syncLog, op, calls, drifts, placed, nextId, args, result>>

\* the instants at which a timer of a call in progress fires: the end of a
\* delay between attempts and, while the run's failure budget allows another
\* abort, the timeout of an outstanding fetch
Deadlines ==
  {Top(stk[p]).wake : p \in {q \in Procs : /\ stk[q] # <<>>
                                           /\ IsReq(Top(stk[q]))
                                           /\ Top(stk[q]).pc = "sleep"}}
  \cup {m.sentAt + timeoutMs(m.attempt) :
          m \in {n \in net : Awaited(n.p, n) /\ faults < MaxFaults}}

\* time passes until the next timer is due
Elapse ==
  /\ \E d \in Deadlines : d > now
  /\ now' = CHOOSE d \in Deadlines : d > now /\ \A e \in Deadlines : e > now => d <= e
  /\ UNCHANGED <<ticks, skew, timeOffset, lastSyncTime, syncPromise, orderCache,
                 stk, res, net, log, syncLog, op, calls, drifts, faults, placed, nextId, args, result>>

NextLive ==
  \/ Elapse
  \/ \E m \in net : ServeOk(m)
  \/ \E m \in net : ServeReject(m, TRUE)
  \/ \E m \in net : ServeDrift(m, TRUE)
  \/ \E m \in net : ServeTimeDrift(m, TRUE)
  \/ \E p \in Procs, m \in net : Receive(p, m)
  \/ \E p \in Procs, m \in net : Abort(p, m, TRUE)
  \/ \E p \in Procs, m \in net : NetError(p, m, TRUE)
  \/ \E p \in Procs : Wake(p)
  \/ \E p \in Procs : AwaitSyncPromise(p)
  \/ \E r \in 1..MaxRetries : getFuturesAccount(1, r)

\* a response has arrived in time and waits for the event loop: the condition
\* under which Receive is enabled
ReceiveReady ==
  \E p \in Procs, m \in net :
    Awaited(p, m) /\ m.st = "replied" /\ now - m.sentAt <= timeoutMs(m.attempt)

\* every fetch is answered or aborted by its timeout; the event loop runs
\* every continuation that is ready (a settled fetch, a timer that is due, a
\* settled promise); time does not stop.  The condition on Receive is weak
\* fairness with ENABLED written out as ReceiveReady.
Fairness ==
  /\ WF_vars(Elapse)
  /\ WF_vars(\E m \in net : ServeOk(m))
  /\ []<>(~ReceiveReady) \/ []<><<\E p \in Procs, m \in net : Receive(p, m)>>_vars
  /\ WF_vars(\E p \in Procs, m \in net : Abort(p, m, TRUE))
  /\ WF_vars(\E p \in Procs : Wake(p))
  /\ WF_vars(\E p \in Procs : AwaitSyncPromise(p))

\* one caller issuing private requests, a bounded number of failures and of
\* nested synchronizations; fair scheduling
SpecLive == Init /\ [][NextLive]_vars /\ Fairness

(***************************************************************************)
(* Methods that await nothing, or whose result is computed from what they  *)
(* awaited without another await: the client is at rest, the call and the  *)
(* values it reads are drawn in the initial state, one step runs it.       *)
(***************************************************************************)
\* ages of the cache entries: fresh, at the TTL, one ms past it
Ages == {0, 1, CACHE_TTL, CACHE_TTL + 1}

RECURSIVE Caches(_)
\* the order caches of n entries: distinct keys in insertion order
Caches(n) ==
  IF n = 0 THEN {<<>>}
  ELSE {Append(c, [id |-> n, contract |-> "BTCUSDT",
                   orderInfo |-> Order(n, "BTCUSDT", "open"),
                   timestamp |-> Epoch + CACHE_TTL + 1 - a]) :
          c \in Caches(n - 1), a \in Ages}

(***************************************************************************)
(* Quantities.  A quantity is a rational number; the code's results have   *)
(* at most three decimal places (a contract minimum is at least 0.001), so *)
(* a floored quantity is held as its number of thousandths, a raw quantity *)
(* as numerator and denominator, and the arithmetic is exact.              *)
(***************************************************************************)
RECURSIVE Pow10(_)
Pow10(n) == IF n = 0 THEN 1 ELSE 10 * Pow10(n - 1)

Max(a, b) == IF a > b THEN a ELSE b
Abs(a) == IF a < 0 THEN -a ELSE a

\* Math.floor(Math.log10(minQty)) of a minimum below 1, given in thousandths
floorLog10(minQty) ==
  IF minQty >= 100 THEN -1 ELSE IF minQty >= 10 THEN -2 ELSE -3

\* minQty >= 1 ? 0 : Math.abs(Math.floor(Math.log10(minQty)))
decimalPlaces(minQty) == IF minQty >= QtyScale THEN 0 ELSE Abs(floorLog10(minQty))

\* Math.floor(quantity * multiplier) / multiplier of the quantity num/den,
\* in thousandths
floorRaw(num, den, multiplier) == ((num * multiplier) \div den) * (QtyScale \div multiplier)

\* the same of a quantity given in thousandths
floorMilli(quantity, multiplier) ==
  ((quantity * multiplier) \div QtyScale) * (QtyScale \div multiplier)

\* what awaiting getContractInfo gives: the contract's minimum, or a failure
ContractInfos ==
  {[ok |-> TRUE, orderSizeMin |-> m] : m \in MinQtys} \cup {[ok |-> FALSE, orderSizeMin |-> 0]}

\* calculateQuantity (lines 885-922) from what getContractInfo gave
calculateQuantity(amountUsdt, price, leverage, info) ==
  LET num == amountUsdt * leverage
      den == price
  IN IF info.ok
       THEN LET minQty == info.orderSizeMin
                multiplier == Pow10(decimalPlaces(minQty))
                roundedQuantity == floorRaw(num, den, multiplier)
                finalQuantity == Max(roundedQuantity, minQty)
                finalRounded == floorMilli(finalQuantity, multiplier)
            IN finalRounded
       ELSE floorRaw(num, den, QtyScale)

\* quantity.toFixed(8), parseFloat and toString of a number of thousandths:
\* the decimal numeral, integer part and up to three decimals
formatQuantity(quantity) ==
  [int |-> quantity \div QtyScale, frac |-> quantity % QtyScale]

\* the number of thousandths a decimal numeral denotes
numeralValue(str) == str.int * QtyScale + str.frac

\* placeOrder's data.quantity (lines 509-537) for params.size = num/den
placeOrder_quantity(num, den, info) ==
  LET quantity == Abs(num)
  IN IF info.ok
       THEN LET minQty == info.orderSizeMin
                multiplier == Pow10(decimalPlaces(minQty))
            IN formatQuantity(floorRaw(quantity, den, multiplier))
       ELSE formatQuantity(floorRaw(quantity, den, QtyScale))

(***************************************************************************)
(* Symbols.  A string is the sequence of its characters.                   *)
(***************************************************************************)
USDT == <<"U", "S", "D", "T">>

\* the pattern occurs in s at position i
OccursAt(s, pattern, i) ==
  /\ i + Len(pattern) - 1 <= Len(s)
  /\ SubSeq(s, i, i + Len(pattern) - 1) = pattern

\* s.includes(pattern)
includes(s, pattern) == \E i \in 1..Len(s) : OccursAt(s, pattern, i)

\* s.endsWith(pattern)
endsWith(s, pattern) ==
  Len(s) >= Len(pattern) /\ OccursAt(s, pattern, Len(s) - Len(pattern) + 1)

\* s.replace(pattern, replacement) with a string pattern: the first
\* occurrence only
replace(s, pattern, replacement) ==
  IF includes(s, pattern)
    THEN LET i == CHOOSE j \in 1..Len(s) :
                    /\ OccursAt(s, pattern, j)
                    /\ \A k \in 1..(j - 1) : ~OccursAt(s, pattern, k)
         IN SubSeq(s, 1, i - 1) \o replacement \o SubSeq(s, i + Len(pattern), Len(s))
    ELSE s

\* (mutant) the quote asset is appended whether or not the symbol has it
normalizeContract_alwaysAppends(symbol) ==
  replace(replace(replace(symbol, <<"_">>, <<>>), <<"/">>, <<>>), <<":">> \o USDT, <<>>)
    \o USDT

normalizeContract(symbol) ==
  LET normalized ==
        replace(replace(replace(symbol, <<"_">>, <<>>), <<"/">>, <<>>), <<":">> \o USDT, <<>>)
  IN IF ~endsWith(normalized, USDT) /\ ~includes(normalized, USDT)
       THEN normalized \o USDT
       ELSE normalized

\* the input formats normalizeContract accepts, for a base asset
Formats == {"bare", "slash", "settled", "underscore", "canonical"}

Symbol(base, format) ==
  CASE format = "bare" -> base
    [] format = "slash" -> base \o <<"/">> \o USDT
    [] format = "settled" -> base \o <<"/">> \o USDT \o <<":">> \o USDT
    [] format = "underscore" -> base \o <<"_">> \o USDT
    [] format = "canonical" -> base \o USDT

\* letters of base assets, those of the quote asset among them
Letters == {"B", "T", "C", "U", "S", "D"}

\* every short word, and the words that spell the quote asset
BaseAssets ==
  UNION {[1..n -> Letters] : n \in 1..MaxBase}
    \cup {USDT} \cup {USDT \o <<l>> : l \in Letters} \cup {<<l>> \o USDT : l \in Letters}

(***************************************************************************)
(* Positions.  The exchange sends numbers as decimal numerals: a sign, an  *)
(* integer part and three decimals; a parsed number is its count of        *)
(* thousandths, a quotient is a fraction in lowest terms.                  *)
(***************************************************************************)
Numeral(neg, int, frac) == [neg |-> neg, int |-> int, frac |-> frac]

\* parseFloat(str), in thousandths ("-0.000" parses to a zero)
parseFloat(str) == (IF str.neg THEN -1 ELSE 1) * (str.int * QtyScale + str.frac)

\* parseInt(str)
parseInt(str) == (IF str.neg THEN -1 ELSE 1) * str.int

\* n.toString() of a number of thousandths
toString(n) == Numeral(n < 0, Abs(n) \div QtyScale, Abs(n) % QtyScale)

RECURSIVE Gcd(_, _)
Gcd(a, b) == IF b = 0 THEN a ELSE Gcd(b, a % b)

\* num / den as a number
Quotient(num, den) ==
  LET g == Gcd(Abs(num), Abs(den))
      sign == IF den < 0 THEN -1 ELSE 1
  IN [num |-> sign * (num \div g), den |-> sign * (den \div g)]

\* (mutant) the notional keeps the sign of the position
getPositions_signedMargin(posAmount, entryPrice, leverage) ==
  LET notional == posAmount * entryPrice
  IN IF leverage > 0 THEN Quotient(notional, leverage * QtyScale * QtyScale)
                     ELSE Quotient(notional, QtyScale * QtyScale)

\* lines 481-482: the margin in USDT of a position
getPositions_margin(posAmount, entryPrice, leverage) ==
  LET notional == Abs(posAmount * entryPrice)
  IN IF leverage > 0 THEN Quotient(notional, leverage * QtyScale * QtyScale)
                     ELSE Quotient(notional, QtyScale * QtyScale)

\* line 465-470: the positions kept
getPositions_filter(p) == parseFloat(p.positionAmt) # 0 \/ parseFloat(p.entryPrice) # 0

\* lines 474-496: the position reported for an exchange position
getPositions_map(p) ==
  LET posAmount == parseFloat(p.positionAmt)
      entryPrice == parseFloat(p.entryPrice)
      leverage == parseInt(p.leverage)
  IN [contract |-> p.symbol,
      size |-> toString(posAmount),
      leverage |-> leverage,
      entryPrice |-> toString(entryPrice),
      margin |-> getPositions_margin(posAmount, entryPrice, leverage)]

\* getPositions (lines 458-502) from what /fapi/v2/positionRisk answered
getPositions(positions) ==
  LET filteredPositions == SelectSeq(positions, getPositions_filter)
  IN [i \in 1..Len(filteredPositions) |-> getPositions_map(filteredPositions[i])]

\* the symbols of the positions of one answer, in order
PositionSymbols == <<"BTCUSDT", "ETHUSDT", "SOLUSDT">>

\* the position the exchange may report for a symbol
ExchangePositions(symbol) ==
  {[symbol |-> symbol, positionAmt |-> Numeral(neg, int, frac),
    entryPrice |-> Numeral(FALSE, eint, efrac), leverage |-> Numeral(FALSE, l, 0)] :
     neg \in BOOLEAN, int \in 0..MaxQuantity, frac \in {0, 500},
     eint \in {0, 100}, efrac \in {0}, l \in {0, 1, 10}}

RECURSIVE PositionLists(_)
PositionLists(n) ==
  IF n = 0 THEN {<<>>}
  ELSE {Append(ps, q) : ps \in PositionLists(n - 1), q \in ExchangePositions(PositionSymbols[n])}

\* (mutant) the side is not looked at
calculatePnl_longOnly(entryPrice, exitPrice, quantity, side, contract) ==
  quantity * (exitPrice - entryPrice)

calculatePnl(entryPrice, exitPrice, quantity, side, contract) ==
  IF side = "long"
    THEN quantity * (exitPrice - entryPrice)
    ELSE quantity * (entryPrice - exitPrice)

\* entry and exit prices
PnlPrices == {90, 100, 110}

\* the local methods
LocalMethods ==
  {"cleanupCache", "calculateQuantity", "placeOrder", "calculatePnl", "getPositions",
   "orderStatus", "normalizeContract"}

\* the calls of a local method, with what the call reads
LocalCalls(fn) ==
  CASE fn = "cleanupCache" ->
         {[fn |-> fn, cache |-> c] : c \in UNION {Caches(n) : n \in 0..MaxEntries}}
    [] fn = "calculateQuantity" ->
         {[fn |-> fn, amountUsdt |-> a, price |-> pr, leverage |-> l, info |-> i] :
            a \in 1..MaxAmount, pr \in Prices, l \in 1..MaxLeverage, i \in ContractInfos}
    [] fn = "placeOrder" ->
         {[fn |-> fn, num |-> n, den |-> d, info |-> i] :
            n \in (-MaxSize..MaxSize) \ {0}, d \in Denominators, i \in ContractInfos}
    [] fn = "calculatePnl" ->
         {[fn |-> fn, entryPrice |-> en, exitPrice |-> ex, quantity |-> q,
           side |-> sd, contract |-> c] :
            en \in PnlPrices, ex \in PnlPrices, q \in 0..MaxQuantity,
            sd \in {"long", "short"}, c \in {Symbol(<<"B", "T", "C">>, f) : f \in Formats}}
    [] fn = "getPositions" ->
         {[fn |-> fn, positions |-> ps] :
            ps \in UNION {PositionLists(n) : n \in 0..MaxPositions}}
    [] fn = "orderStatus" ->
         {[fn |-> fn, status |-> st] : st \in OrderStatuses}
    [] fn = "normalizeContract" ->
         {[fn |-> fn, base |-> b, format |-> f, symbol |-> Symbol(b, f)] :
            b \in BaseAssets, f \in Formats}

InitLocal ==
  /\ now = Epoch + CACHE_TTL + 1
  /\ ticks = 0
  /\ skew = Skew
  /\ calls = [p \in Procs |-> 0]
  /\ drifts = [p \in Procs |-> 0]
  /\ faults = 0
  /\ placed = {}
  /\ nextId = 1
  /\ stk = [p \in Procs |-> <<>>]
  /\ res = [p \in Procs |-> NoRes]
  /\ log = [p \in Procs |-> <<>>]
  /\ op = [p \in Procs |-> "none"]
  /\ timeOffset = InitClient.timeOffset
  /\ lastSyncTime = InitClient.lastSyncTime
  /\ syncPromise = "null"
  /\ net = {}
  /\ syncLog = InitClient.syncLog
  /\ \E fn \in LocalMethods : args \in LocalCalls(fn)
  /\ orderCache = IF args.fn = "cleanupCache" THEN args.cache ELSE InitClient.orderCache
  /\ result = NoCall

\* what a local call leaves alone, the order cache apart
LocalUnchanged ==
  UNCHANGED <<now, ticks, skew, timeOffset, lastSyncTime, syncPromise, stk, res, net,
              log, syncLog, op, calls, drifts, faults, placed, nextId, args>>

Local_cleanupCache ==
  /\ args.fn = "cleanupCache"
  /\ result = NoCall
  /\ orderCache' = cleanupCache(orderCache, now)
  /\ result' = [fn |-> "cleanupCache"]
  /\ LocalUnchanged

Local_calculateQuantity ==
  /\ args.fn = "calculateQuantity"
  /\ result = NoCall
  /\ result' = [fn |-> "calculateQuantity",
                val |-> calculateQuantity(args.amountUsdt, args.price, args.leverage,
                                          args.info)]
  /\ UNCHANGED orderCache
  /\ LocalUnchanged

\* placeOrder from getContractInfo's return to the order request it sends
Local_placeOrder ==
  /\ args.fn = "placeOrder"
  /\ result = NoCall
  /\ result' = [fn |-> "placeOrder",
                quantity |-> placeOrder_quantity(args.num, args.den, args.info)]
  /\ UNCHANGED orderCache
  /\ LocalUnchanged

\* normalizeContract, and normalizeContract of what it returned
Local_normalizeContract ==
  /\ args.fn = "normalizeContract"
  /\ result = NoCall
  /\ result' = [fn |-> "normalizeContract",
                val |-> normalizeContract(args.symbol),
                again |-> normalizeContract(normalizeContract(args.symbol))]
  /\ UNCHANGED orderCache
  /\ LocalUnchanged

Local_calculatePnl ==
  /\ args.fn = "calculatePnl"
  /\ result = NoCall
  /\ result' = [fn |-> "calculatePnl",
                val |-> calculatePnl(args.entryPrice, args.exitPrice, args.quantity,
                                     args.side, args.contract)]
  /\ UNCHANGED orderCache
  /\ LocalUnchanged

\* getPositions from the return of its request
Local_getPositions ==
  /\ args.fn = "getPositions"
  /\ result = NoCall
  /\ result' = [fn |-> "getPositions", val |-> getPositions(args.positions)]
  /\ UNCHANGED orderCache
  /\ LocalUnchanged

\* the status placeOrder and getOrder report for an order the exchange
\* answered with the same status
Local_orderStatus ==
  /\ args.fn = "orderStatus"
  /\ result = NoCall
  /\ result' = [fn |-> "orderStatus",
                placeOrder |-> placeOrder_store(orderCache, [contract |-> "BTC"], now,
                                 [orderId |-> 1, status |-> args.status]).ret.val.status,
                getOrder |-> getOrder_store(orderCache,
                                 [oid |-> 1, cached |-> [contract |-> "BTC"]], now,
                                 [orderId |-> 1, status |-> args.status]).ret.val.status]
  /\ UNCHANGED orderCache
  /\ LocalUnchanged

NextLocal ==
  \/ Local_cleanupCache
  \/ Local_calculateQuantity
  \/ Local_placeOrder
  \/ Local_normalizeContract
  \/ Local_calculatePnl
  \/ Local_getPositions
  \/ Local_orderStatus

\* the client at rest running one local computation
SpecLocal == InitLocal /\ [][NextLocal]_vars

(***************************************************************************)
(*                               Properties                                *)
(***************************************************************************)
Last(h) == h[Len(h)]

\* the places <<call, depth>> of the request frames
AllReqFrames == {<<p, i>> \in Procs \X (1..8) : i <= Len(stk[p]) /\ IsReq(stk[p][i])}

\* the origin of the synchronization a server-time request belongs to
SyncOrigin(m) == stk[m.p][m.d - 1].origin

\* C1: the callers of ensureTimeSynced (and the constructor) never have more
\* than one server-time request outstanding
C1_OneSyncOutstanding ==
  Cardinality({m \in net : m.ep = "time" /\ SyncOrigin(m) \in {"ctor", "ensure"}}) <= 1

\* C2: after a non-success response whose code is not the clock-drift code the
\* error is surfaced at once: no further attempt of that request is sent
C2_RejectionNotRetried ==
  \A p \in Procs : \A k \in 1..Len(log[p]) :
    log[p][k].out = "rejected" => Len(log[p]) = k

\* C5: every attempt of a signed request carries the timestamp read from
\* getServerTime() when that attempt was built and the signature of the
\* parameters with that timestamp
C5_FreshRequestPerAttempt ==
  /\ \A m \in net : m.signed =>
       /\ m.ts = getServerTime(m.offAt, m.sentAt)
       /\ m.sig = generateSignature([params |-> m.params, timestamp |-> m.ts,
                                     recvWindow |-> defaultRecvWindow])
  /\ \A p \in Procs : \A k \in 1..Len(log[p]) :
       log[p][k].ts = getServerTime(log[p][k].off, log[p][k].at)

\* a second attempt in flight whose timestamp differs from the first attempt's
C5_Witness ==
  \E m \in net :
    /\ m.signed
    /\ m.attempt = 2
    /\ Len(log[m.p]) = 2
    /\ m.ts # log[m.p][1].ts
    /\ m.offAt # log[m.p][1].off

\* C6 as claimed: clock drift on attempt 1 and success on attempt 2 imply a
\* synchronization in between whose offset stamps attempt 2, two distinct
\* timestamps and a successful call
C6_DriftRetryUsesNewSync ==
  \A p \in Procs :
    (Len(log[p]) >= 2 /\ log[p][1].out = "drift" /\ log[p][2].out = "ok") =>
      /\ log[p][1].sync = "ok"
      /\ log[p][2].off = log[p][1].syncOff
      /\ log[p][1].ts # log[p][2].ts
      /\ stk[p] = <<>>
      /\ res[p].ok

\* C7: a logical call sends at most `retries` requests, one at a time: an
\* attempt is sent only after the previous one got its answer, failed or was
\* aborted
C7_AttemptsBoundedSequential ==
  /\ \A p \in Procs : \A k \in 1..Len(log[p]) :
       /\ Len(log[p]) <= log[p][k].retries
       /\ k < Len(log[p]) => log[p][k].out # "pending"
  /\ \A x \in AllReqFrames :
       LET f == stk[x[1]][x[2]]
           out == {m \in net : m.p = x[1] /\ m.d = x[2]}
       IN /\ Len(f.hist) <= f.retries
          /\ \A k \in 1..(Len(f.hist) - 1) : f.hist[k].out # "pending"
          /\ Cardinality(out) <= 1
          /\ \A m \in out : m.attempt = f.attempt /\ Last(f.hist).out = "pending"
          /\ out = {} => (f.hist # <<>> /\ Last(f.hist).out # "pending")

\* the retry after a clock-drift answer was the last attempt allowed
C7_Witness ==
  \E p \in Callers :
    /\ Len(log[p]) = 2
    /\ log[p][1].out = "drift"
    /\ log[p][2].retries = 2
    /\ log[p][2].out \in {"rejected", "AbortError"}
    /\ stk[p] = <<>>

\* C9 as claimed: after a synchronization the timestamp getServerTime()
\* returns is not ahead of the exchange's clock
C9_NeverAhead ==
  syncLog.n > 0 => getServerTime(timeOffset, now) <= now + skew

\* C10 as claimed: getServerTime() = localTime + (S + R/2 - T1) - 2000 with the
\* exact half of the round trip (both sides doubled)
C10_ExactHalfRtt ==
  syncLog.n > 0 =>
    2 * getServerTime(timeOffset, now) =
      2 * now + 2 * syncLog.serverTime + (syncLog.t1 - syncLog.t0)
      - 2 * syncLog.t1 - 2 * 2000

\* C10 amended: getServerTime() = localTime + (S + floor(R/2) - T1) - 2000 from
\* the completion of a synchronization to the completion of the next
C10_FlooredHalfRtt ==
  syncLog.n > 0 =>
    getServerTime(timeOffset, now) =
      now + (syncLog.serverTime + ((syncLog.t1 - syncLog.t0) \div 2) - syncLog.t1) - 2000

\* a call made after a synchronization whose round trip was an odd number of ms
C10_Witness ==
  /\ syncLog.n > 0
  /\ (syncLog.t1 - syncLog.t0) % 2 = 1
  /\ now > syncLog.t1
  /\ \E m \in net : m.signed /\ m.sentAt > syncLog.t1

\* C3: between the steps of concurrent placeOrder and getOrder calls the order
\* cache holds at most MAX_CACHE_SIZE entries
C3_CacheWithinCapacity ==
  Len(orderCache) <= MAX_CACHE_SIZE

\* C4: the lookup of getOrder never uses an entry whose timestamp is more than
\* CACHE_TTL in the past
C4_ExpiredEntryNotUsed ==
  \A p \in Callers :
    (stk[p] # <<>> /\ stk[p][1].fn = "getOrder" /\ stk[p][1].cached.found) =>
      ~(stk[p][1].lookedAt - stk[p][1].cached.timestamp > CACHE_TTL)

\* the placeOrder of p has ended
PlaceOrderEnded(p) == op[p] = "placeOrder" /\ stk[p] = <<>>

\* the order request of p's placeOrder got a success response
OrderRequestSucceeded(p) == log[p] # <<>> /\ Last(log[p]).out = "ok"

\* C8: a placeOrder whose order request fails on all its attempts raises an
\* error, returns no OrderResponse and leaves the order cache as it was; the
\* cache holds only ids carried by a successful place response
C8_FailedPlaceOrderRaises ==
  /\ [](\A p \in Callers :
          PlaceOrderEnded(p) =>
            /\ res[p].ok <=> OrderRequestSucceeded(p)
            /\ res[p].ok => (res[p].val.kind = "order" /\ res[p].val.id \in placed))
  /\ [](CacheIds(orderCache) \subseteq placed)
  /\ [][\A p \in Callers :
          (op[p] = "placeOrder" /\ stk[p] # <<>> /\ stk'[p] = <<>> /\ ~res'[p].ok)
            => orderCache' = orderCache]_vars

\* a placeOrder that ended with the error of its second and last attempt, the
\* cache holding an order placed before
C8_Witness ==
  \E p \in Callers :
    /\ PlaceOrderEnded(p)
    /\ ~res[p].ok
    /\ log[p] # <<>>
    /\ Len(log[p]) = 2
    /\ Last(log[p]).attempt = Last(log[p]).retries
    /\ Last(log[p]).out \in {"rejected", "AbortError", "TypeError"}
    /\ orderCache # <<>>

\* C11: timeOffset and lastSyncTime are written only by the step in which a
\* synchronization receives the success response of its time query; a failing
\* synchronization and every other step leave both as they were
C11_OffsetWrittenBySuccessfulSync ==
  [][(timeOffset' # timeOffset \/ lastSyncTime' # lastSyncTime) =>
       \E m \in net :
         /\ m.ep = "time"
         /\ m.st = "replied"
         /\ m.resp.kind = "ok"
         /\ m \notin net'
         /\ stk[m.p][m.d - 1].fn = "syncServerTime"
         /\ Len(stk'[m.p]) < m.d - 1 \/ stk'[m.p][m.d - 1].fn # "syncServerTime"
         /\ lastSyncTime' = now]_vars

\* a synchronization of the clock-drift path has failed after an earlier one
\* succeeded, and the offset and sync time are still those of the earlier one
C11_Witness ==
  \E p \in Callers :
    /\ Len(log[p]) >= 1
    /\ log[p][1].sync = "failed"
    /\ syncLog.n > 0
    /\ lastSyncTime = syncLog.t1
    /\ timeOffset = log[p][1].off

\* the step in which p's getOrder for an id that was not cached ends
UncachedGetOrderEnds(p) ==
  /\ stk[p] # <<>>
  /\ stk[p][1].fn = "getOrder"
  /\ ~stk[p][1].cached.found
  /\ stk'[p] = <<>>

\* C12: getOrder for an id that is neither cached nor among the open orders
\* does not raise: it returns the result with status 'finished' and contract
\* 'UNKNOWN', also when the open-orders query fails
C12_UncachedGetOrderNeverRaises ==
  [][\A p \in Callers :
       UncachedGetOrderEnds(p) =>
         /\ res'[p].ok
         /\ res'[p].val \in {defaultOrder(stk[p][1].oid),
                             Order(stk[p][1].oid, "BTCUSDT", "open")}]_vars

\* the step in which p's getOrder for a cached id ends
CachedGetOrderEnds(p) ==
  /\ stk[p] # <<>>
  /\ stk[p][1].fn = "getOrder"
  /\ stk[p][1].cached.found
  /\ stk'[p] = <<>>

\* C13: a getOrder for a cached id whose re-query fails returns the snapshot it
\* read from the cache, without raising and without changing the cache; when
\* the re-query succeeds the entry becomes the fresh snapshot with the current
\* time as timestamp and the contract it had
C13_CachedGetOrderFallsBack ==
  [][\A p \in Callers :
       CachedGetOrderEnds(p) =>
         LET f == stk[p][1] IN
         IF log'[p] # <<>> /\ Last(log'[p]).out = "ok"
           THEN \E m \in net \ net' :
                  /\ m.p = p
                  /\ m.ep = "queryOrder"
                  /\ res'[p] = [ok |-> TRUE,
                                val |-> Order(m.resp.body.orderId, f.cached.contract,
                                              queryStatus(m.resp.body.status))]
                  /\ cacheGet(orderCache', f.oid) =
                       [found |-> TRUE, contract |-> f.cached.contract,
                        orderInfo |-> res'[p].val, timestamp |-> now]
           ELSE /\ res'[p] = [ok |-> TRUE, val |-> f.cached.orderInfo]
                /\ orderCache' = orderCache]_vars

\* a getOrder for a cached id has returned the cached snapshot after both
\* attempts of its re-query failed
C13_Witness ==
  \E p \in Callers :
    /\ op[p] = "getOrder"
    /\ stk[p] = <<>>
    /\ Len(log[p]) = 2
    /\ Last(log[p]).out \in {"rejected", "AbortError", "TypeError"}
    /\ res[p].ok
    /\ res[p].val.kind = "order"
    /\ res[p].val.status = "open"
    /\ cacheGet(orderCache, res[p].val.id).found
    /\ cacheGet(orderCache, res[p].val.id).orderInfo = res[p].val

(****************************** local methods ******************************)
Entries(cache) == {cache[i] : i \in 1..Len(cache)}
OlderThanTtl(e) == now - e.timestamp > CACHE_TTL
LiveBefore == {e \in Entries(args.cache) : ~OlderThanTtl(e)}

\* C14: after cleanupCache every entry older than CACHE_TTL is gone; if more
\* than MAX_CACHE_SIZE entries within the TTL were present, exactly
\* MAX_CACHE_SIZE of them remain and none that was evicted is newer than one
\* that was kept; otherwise every entry within the TTL remains.
C14_TtlFirstSizeSecond ==
  result.fn = "cleanupCache" =>
    /\ \A e \in Entries(orderCache) : ~OlderThanTtl(e)
    /\ Entries(orderCache) \subseteq LiveBefore
    /\ Cardinality(Entries(orderCache)) = Len(orderCache)
    /\ IF Cardinality(LiveBefore) > MAX_CACHE_SIZE
         THEN /\ Len(orderCache) = MAX_CACHE_SIZE
              /\ \A k \in Entries(orderCache), e \in LiveBefore \ Entries(orderCache) :
                   k.timestamp >= e.timestamp
         ELSE Entries(orderCache) = LiveBefore

\* a sweep met an entry past the TTL and more live entries of different
\* ages than the cache may hold, and evicted a live one
C14_Witness ==
  /\ result.fn = "cleanupCache"
  /\ \E e \in Entries(args.cache) : OlderThanTtl(e)
  /\ Cardinality(LiveBefore) > MAX_CACHE_SIZE
  /\ \E e1, e2 \in LiveBefore :
       e1.timestamp < e2.timestamp /\ e1 \notin Entries(orderCache) /\ e2 \in Entries(orderCache)
  /\ \E e \in LiveBefore : now - e.timestamp = CACHE_TTL

\* C15: the quantity calculateQuantity returns never exceeds the raw
\* quantity (amountUsdt * leverage) / price, whatever the contract minimum.
C15_QuantityWithinBudget ==
  result.fn = "calculateQuantity" =>
    result.val * args.price <= args.amountUsdt * args.leverage * QtyScale

\* C16: the quantity placeOrder submits and the one calculateQuantity returns
\* are no larger than the raw quantity and are multiples of the contract's
\* step, whatever the step.
C16_FlooredToStep ==
  /\ (result.fn = "calculateQuantity" /\ args.info.ok) =>
       /\ result.val * args.price <= args.amountUsdt * args.leverage * QtyScale
       /\ result.val % args.info.orderSizeMin = 0
  /\ (result.fn = "placeOrder" /\ args.info.ok) =>
       /\ numeralValue(result.quantity) * args.den <= Abs(args.num) * QtyScale
       /\ numeralValue(result.quantity) % args.info.orderSizeMin = 0

BTC == <<"B", "T", "C">>

\* C17: normalizeContract of what normalizeContract returned for a symbol in
\* an accepted format is that same symbol; every format of a base asset that
\* is quoted in USDT (and does not spell USDT itself) gives base + USDT.
C17_NormalizeIdempotent ==
  result.fn = "normalizeContract" =>
    /\ result.again = result.val
    /\ ~includes(args.base, USDT) => result.val = args.base \o USDT

\* BTC/USDT:USDT was normalized to BTCUSDT
C17_Witness ==
  /\ result.fn = "normalizeContract"
  /\ args.symbol = BTC \o <<"/">> \o USDT \o <<":">> \o USDT
  /\ result.val = BTC \o USDT
  /\ result.again = BTC \o USDT

\* C18: calculatePnl returns quantity * (exitPrice - entryPrice) for a long
\* and quantity * (entryPrice - exitPrice), the negation of the long result,
\* for a short; the contract and the client's state have no part in it.
C18_PnlBySide ==
  result.fn = "calculatePnl" =>
    LET long == args.quantity * (args.exitPrice - args.entryPrice)
    IN /\ args.side = "long" => result.val = long
       /\ args.side = "short" =>
            /\ result.val = args.quantity * (args.entryPrice - args.exitPrice)
            /\ result.val = -long

\* entry 100, exit 110, quantity 2, short: -20
C18_Witness ==
  /\ result.fn = "calculatePnl"
  /\ args.entryPrice = 100 /\ args.exitPrice = 110 /\ args.quantity = 2
  /\ args.side = "short"
  /\ result.val = -20

\* the exchange position a reported position was made from
SourceOf(r) == CHOOSE p \in {args.positions[i] : i \in 1..Len(args.positions)} :
                 p.symbol = r.contract

\* C19: every position getPositions returns has margin
\* |size * entryPrice| / leverage and a size with the sign the exchange sent.
C19_MarginAndSignedSize ==
  result.fn = "getPositions" =>
    \A i \in 1..Len(result.val) :
      LET r == result.val[i]
          p == SourceOf(r)
          size == parseFloat(r.size)
          entryPrice == parseFloat(r.entryPrice)
      IN /\ r.leverage > 0 =>
              r.margin = Quotient(Abs(size * entryPrice), r.leverage * QtyScale * QtyScale)
         /\ size = parseFloat(p.positionAmt)
         /\ size # 0 => r.size.neg = p.positionAmt.neg

\* a short position of size -2 entered at 100 with leverage 10: margin 20
C19_Witness ==
  /\ result.fn = "getPositions"
  /\ \E i \in 1..Len(result.val) :
       /\ result.val[i].size = Numeral(TRUE, 2, 0)
       /\ result.val[i].entryPrice = Numeral(FALSE, 100, 0)
       /\ result.val[i].leverage = 10
       /\ result.val[i].margin = [num |-> 20, den |-> 1]

\* C20: placeOrder and getOrder report NEW as open, FILLED as finished,
\* CANCELED as cancelled and any other status as one further string, the same
\* from both operations.
C20_UniformStatus ==
  result.fn = "orderStatus" =>
    /\ result.placeOrder = result.getOrder
    /\ args.status = "NEW" => result.getOrder = "open"
    /\ args.status = "FILLED" => result.getOrder = "finished"
    /\ args.status = "CANCELED" => result.getOrder = "cancelled"
    /\ args.status \notin {"NEW", "FILLED", "CANCELED"} =>
         result.getOrder \notin {"open", "finished", "cancelled"}

(************************* synchronization marker **************************)
\* call p resumes from `await this.syncPromise`
SyncPromiseSettles(p) ==
  /\ stk[p] # <<>>
  /\ Top(stk[p]).fn = "privateRequest"
  /\ Top(stk[p]).pc = "awaitSyncPromise"
  /\ stk'[p] # stk[p]

\* C21: when a private request has awaited the synchronization that
\* syncPromise refers to, the marker is cleared, whether that synchronization
\* succeeded or failed, so that the next private request starts from no
\* marker and checks the age of the last synchronization.
C21_MarkerClearedOnCompletion ==
  [][\A p \in Callers : SyncPromiseSettles(p) => syncPromise' = "null"]_vars

\* the call's privateRequest is past ensureTimeSynced()
PastEnsure(s) ==
  \E i \in 1..Len(s) : s[i].fn = "privateRequest" /\ s[i].pc = "request"

\* ensureTimeSynced() returns normally to call p's privateRequest
EnsureReturns(p) == ~PastEnsure(stk[p]) /\ PastEnsure(stk'[p])

\* C22: whenever ensureTimeSynced() returns normally, the last successful
\* synchronization completed no more than RESYNC_INTERVAL earlier.
C22_SyncedWithinInterval ==
  [][\A p \in Callers :
       EnsureReturns(p) => lastSyncTime' > 0 /\ now - lastSyncTime' <= RESYNC_INTERVAL]_vars

(*************************** failed synchronization ************************)
\* call p's privateRequest is in the syncServerTime() of ensureTimeSynced()
InEnsureSync(s) ==
  \E i \in 1..Len(s) : s[i].fn = "privateRequest" /\ s[i].pc = "ensureSync"

\* the synchronization ensureTimeSynced() started for call p fails
EnsureSyncFails(p) ==
  InEnsureSync(stk[p]) /\ ~InEnsureSync(stk'[p]) /\ ~PastEnsure(stk'[p])

\* the synchronization the clock-drift path of call p's signed request
\* started fails
DriftSyncFails(p) ==
  /\ log'[p] # <<>>
  /\ Last(log'[p]).sync = "failed"
  /\ log[p] = <<>> \/ Len(log[p]) < Len(log'[p]) \/ Last(log[p]).sync # "failed"

\* C23: when a synchronization fails, whether ensureTimeSynced() or the
\* clock-drift path of a retry loop started it, the call that triggered it
\* ends with an error and sends no further attempt.
C23_SyncFailurePropagates ==
  [][\A p \in Callers :
       (EnsureSyncFails(p) \/ DriftSyncFails(p)) =>
         /\ stk'[p] = <<>>
         /\ ~res'[p].ok]_vars

(****************************** terminal error ****************************)
\* the thrown error has a code property with this value
HasCode(e, code) == "code" \in DOMAIN e /\ e.code = code

\* the thrown error's message contains the text
MessageContains(e, text) ==
  IF e.name = "Error" THEN \E i \in 1..Len(e.msg) : e.msg[i] = text
  ELSE e.msg = text

\* call p ends on the non-success response to the final attempt of its
\* signed request
EndsRejected(p) ==
  /\ stk[p] # <<>>
  /\ stk'[p] = <<>>
  /\ log'[p] # <<>>
  /\ Last(log'[p]).out \in {"rejected", "drift"}

\* C24: the error raised when the final attempt got a non-success response
\* carries that response's error code and message, whatever happened to the
\* earlier attempts.
C24_TerminalErrorCarriesPayload ==
  [][\A p \in Callers :
       EndsRejected(p) =>
         \E m \in net \ net' :
           /\ m.p = p
           /\ m.attempt = Len(log'[p])
           /\ ~res'[p].ok
           /\ MessageContains(res'[p], m.resp.msg)
           /\ HasCode(res'[p], m.resp.code)]_vars

(******************************** cancelOrder ******************************)
\* a cancelOrder of call p ends, for an order whose entry is in the cache
CachedCancelEnds(p) ==
  /\ stk[p] # <<>>
  /\ stk[p][1].fn = "cancelOrder"
  /\ stk'[p] = <<>>
  /\ cacheGet(orderCache, stk[p][1].oid).found

\* C25: cancelOrder for an order whose entry is in the order cache does not
\* fail with 'not found': the contract comes from the cache entry and the
\* cancel request is sent with it.
C25_CachedOrderCancelled ==
  [][\A p \in Callers :
       CachedCancelEnds(p) => res'[p] # notFound(stk[p][1].oid)]_vars

(***************************** order creation ******************************)
\* C26: one placeOrder call causes at most one order to be created at the
\* exchange: the orders the exchange has created never outnumber the calls
\* made (only placeOrder sends an order-creation request).
C26_OneOrderPerCall ==
  nextId - 1 <= Total(calls, NumCallers)


(***************************************************************************)
(* C27: termination of the logical calls.                                  *)
(***************************************************************************)
\* every call in progress ends (returns or raises): checked with the number
\* of nested synchronizations limited to MaxNest
CallsTerminate == \A p \in Procs : (stk[p] # <<>>) ~> (stk[p] = <<>>)

\* where a retry loop stands: which request, which attempt of how many,
\* waiting for what
Config(f) == [fn |-> f.fn, ep |-> f.ep, attempt |-> f.attempt,
              retries |-> f.retries, pc |-> f.pc]

\* the retry loop of a server-time request starts a synchronization
NestedSyncStarts(p) ==
  /\ stk[p] # <<>>
  /\ IsReq(Top(stk[p]))
  /\ Top(stk[p]).ep = "time"
  /\ SyncDepth(stk'[p]) = SyncDepth(stk[p]) + 1

\* C27: every logical call terminates when each HTTP exchange responds or
\* is aborted, nested synchronizations included: a synchronization started
\* by the retry loop of a server-time request that saw the clock-drift code
\* does not put the call back where that loop stood (the same attempt of as
\* many attempts of the same request, waiting for its answer, which can be
\* the clock-drift code again), so the chain of nested synchronizations
\* has an end.
C27_NestedSyncAdvances ==
  [][\A p \in Procs :
       NestedSyncStarts(p) => Config(Top(stk'[p])) # Config(Top(stk[p]))]_vars

\* a call with as many synchronizations nested as the exchange gave clock-drift
\* answers to its server-time requests
C27_Nested == \E p \in Procs : SyncDepth(stk[p]) = MaxNest
====
